---- MODULE Spec2Model ----
(***************************************************************************)
(* State-machine model of the wardrobe application's request handlers:     *)
(* the FastAPI backend (src/backend/main.py) and the Streamlit API bridge  *)
(* (src/app.py).  One request is handled at a time; the upload handler's   *)
(* loop is modelled one iteration per step.  SpecConcurrent runs register  *)
(* requests side by side, one database call per step.  The database        *)
(* tables, the wardrobe service, the AI service and the weather service    *)
(* are the collaborators the handlers call.                                *)
(***************************************************************************)
EXTENDS Integers, Sequences, FiniteSets, TLC

\* ---------------------------------------------------------------- bounds
MaxFiles == 3        \* longest accepted upload batch explored
MaxOver == 1         \* oversize batches carry MAX_UPLOAD+1 .. MAX_UPLOAD+MaxOver files
MaxItemId == 3       \* item ids the store hands out
MaxIds == 2          \* longest batch-delete id list explored
MaxUsers == 2        \* rows the users table may hold

\* ------------------------------------------------------ program constants
MAX_UPLOAD == 10     \* main.py:217  len(files) > 10

\* ------------------------------------------------------------ input sets
Images == 1..2                     \* raw image contents (bytes)
UserIds == {"1", "2"}              \* user_id strings of wardrobe requests
Usernames == {"a", "b"}
Passwords == {"p", "q"}
Cities == {"Taipei"}
Styles == {"", "casual"}
WeatherResults == {"None", "sunny"}   \* weather_service.get_weather: None or a WeatherData
Recommendations == {"", "prose"}      \* generate_outfit_recommendation: empty or text
ItemIds == 1..MaxItemId

\* batches of files: every short batch, and constant-content oversize batches
FileBatches ==
    UNION {[1..n -> Images] : n \in 1..MaxFiles}
    \cup {[i \in 1..n |-> b] : n \in (MAX_UPLOAD + 1)..(MAX_UPLOAD + MaxOver), b \in Images}

\* batch-delete requests name ids among the first three the store hands out
DeleteIds == {1, 2, 3}
IdLists == UNION {[1..n -> DeleteIds] : n \in 0..MaxIds}

\* one-file batches, enough to fill a wardrobe item by item
SingleFileBatches == [1..1 -> Images]

\* request handlers that may run at the same time (server workers, Streamlit
\* session threads, the two server processes)
Procs == {1, 2}

VARIABLES
    pc,                 \* "boot" | "idle" | "upload" (inside upload_images' loop)
    supabase_client,    \* main.py globals: TRUE = initialised, FALSE = None
    ai_service,
    weather_service,
    wardrobe_service,
    services,           \* app.py init_services(): [supabase, wardrobe] handles
    users,              \* table "users": sequence of rows [id, username, password]
    wardrobe,           \* wardrobe table: set of [id, user_id, name, image_hash]
    next_item_id,       \* next id the wardrobe table hands out
    req,                \* the request being (or last) handled: endpoint, variant, user
    resp,               \* the response of the last finished request
    calls,              \* calls made to collaborators while handling req (counts, results)
    img_bytes_list,     \* upload_images locals
    tags_list,
    idx,
    success_count,
    duplicate_count,
    fail_count,
    saved_items,
    reg                 \* concurrent register requests: per process [pc, variant,
                        \* username, password, existing, resp]

handles == <<supabase_client, ai_service, weather_service, wardrobe_service, services>>
upVars == <<img_bytes_list, tags_list, idx, success_count, duplicate_count, fail_count, saved_items>>
vars == <<pc, handles, users, wardrobe, next_item_id, req, resp, calls, upVars, reg>>

NoReq == [op |-> "none", variant |-> "none"]
NoResp == [code |-> 0, success |-> FALSE, detail |-> "none"]
RegIdle == [pc |-> "idle", variant |-> "none", username |-> "none", password |-> "none",
            existing |-> <<>>, resp |-> NoResp]
NoCalls == [read |-> 0, tag |-> 0, tag_n |-> -1, dup |-> 0, save |-> 0,
            get_wardrobe |-> 0, weather |-> "not called", gen |-> 0,
            gen_style |-> "none", parse |-> 0]

Min(a, b) == IF a < b THEN a ELSE b

\* raise HTTPException(status_code=code, detail=detail)
HTTPException(code, detail) == [code |-> code, success |-> FALSE, detail |-> detail]

Init ==
    /\ pc = "boot"
    /\ supabase_client = FALSE
    /\ ai_service = FALSE
    /\ weather_service = FALSE
    /\ wardrobe_service = FALSE
    /\ services = [supabase |-> FALSE, wardrobe |-> FALSE]
    /\ users = <<>>
    /\ wardrobe = {}
    /\ next_item_id = 1
    /\ req = NoReq
    /\ resp = NoResp
    /\ calls = NoCalls
    /\ img_bytes_list = <<>>
    /\ tags_list = <<>>
    /\ idx = 0
    /\ success_count = 0
    /\ duplicate_count = 0
    /\ fail_count = 0
    /\ saved_items = <<>>
    /\ reg = [p \in Procs |-> RegIdle]

\* init_services (app.py): the wardrobe service exists iff the database client does
init_services(configured) == [supabase |-> configured, wardrobe |-> configured]

\* startup_event (main.py): all four handles are created, or none when a
\* configuration value is missing.  The Streamlit process initialises its own
\* handles (init_services) from its own configuration.
startup_event(env_ok, st_configured) ==
    /\ pc = "boot"
    /\ pc' = "idle"
    /\ supabase_client' = env_ok
    /\ ai_service' = env_ok
    /\ weather_service' = env_ok
    /\ wardrobe_service' = env_ok
    /\ services' = init_services(st_configured)
    /\ UNCHANGED <<reg, users, wardrobe, next_item_id, req, resp, calls, upVars>>

\* ------------------------------------------------------------ users table
\* table("users").select(...).eq("username", u).execute()
select_by_username(username) == SelectSeq(users, LAMBDA r : r.username = username)

\* table("users").insert({username, password}).execute(): the store assigns the id
insert_user(username, password) ==
    Append(users, [id |-> Len(users) + 1, username |-> username, password |-> password])

\* ------------------------------------------------------- login / register
\* fault: the password filter is dropped
login_rows_broken(username, password) ==
    SelectSeq(users, LAMBDA r : r.username = username)

\* main.py login: rows matching both username and password
login_rows(username, password) ==
    SelectSeq(users, LAMBDA r : r.username = username /\ r.password = password)

\* app.py api_login: the same query
api_login_rows(username, password) ==
    SelectSeq(users, LAMBDA r : r.username = username /\ r.password = password)

login(username, password) ==
    /\ pc = "idle"
    /\ req' = [op |-> "login", variant |-> "rest", username |-> username,
               password |-> password]
    /\ calls' = NoCalls
    /\ resp' = IF ~supabase_client
               THEN HTTPException(503, "db not ready")
               ELSE LET result == login_rows(username, password)
                    IN IF result # <<>>
                       THEN [code |-> 200, success |-> TRUE,
                             user_id |-> ToString(result[1].id), username |-> username]
                       ELSE HTTPException(401, "bad credentials")
    /\ UNCHANGED <<reg, pc, handles, users, wardrobe, next_item_id, upVars>>

api_login(username, password) ==
    /\ pc = "idle"
    /\ req' = [op |-> "login", variant |-> "streamlit", username |-> username,
               password |-> password]
    /\ calls' = NoCalls
    /\ resp' = IF ~services.supabase
               THEN [success |-> FALSE, message |-> "db not configured"]
               ELSE LET result == api_login_rows(username, password)
                    IN IF result # <<>>
                       THEN [success |-> TRUE, user_id |-> ToString(result[1].id),
                             username |-> username]
                       ELSE [success |-> FALSE, message |-> "bad credentials"]
    /\ UNCHANGED <<reg, pc, handles, users, wardrobe, next_item_id, upVars>>

\* fault: the existence check is dropped
username_taken_never(username) == FALSE

\* main.py register: `if existing.data: raise 400`
username_taken(username) == select_by_username(username) # <<>>

register(username, password) ==
    /\ pc = "idle"
    /\ req' = [op |-> "register", variant |-> "rest", username |-> username,
               password |-> password]
    /\ calls' = NoCalls
    /\ IF ~supabase_client
       THEN /\ resp' = HTTPException(503, "db not ready")
            /\ users' = users
       ELSE IF username_taken(username)
       THEN /\ resp' = HTTPException(400, "username exists")
            /\ users' = users
       ELSE /\ Len(users) < MaxUsers
            /\ users' = insert_user(username, password)
            /\ resp' = [code |-> 200, success |-> TRUE, message |-> "registered"]
    /\ UNCHANGED <<reg, pc, handles, wardrobe, next_item_id, upVars>>

\* app.py api_register: `if existing.data: return success False`
api_username_taken(username) == select_by_username(username) # <<>>

api_register(username, password) ==
    /\ pc = "idle"
    /\ req' = [op |-> "register", variant |-> "streamlit", username |-> username,
               password |-> password]
    /\ calls' = NoCalls
    /\ IF ~services.supabase
       THEN /\ resp' = [success |-> FALSE, message |-> "db not configured"]
            /\ users' = users
       ELSE IF api_username_taken(username)
       THEN /\ resp' = [success |-> FALSE, message |-> "username exists"]
            /\ users' = users
       ELSE /\ Len(users) < MaxUsers
            /\ users' = insert_user(username, password)
            /\ resp' = [success |-> TRUE, message |-> "registered"]
    /\ UNCHANGED <<reg, pc, handles, wardrobe, next_item_id, upVars>>

Startup == \E env_ok \in BOOLEAN, st_configured \in BOOLEAN : startup_event(env_ok, st_configured)

NextAuth ==
    \/ Startup
    \/ \E u \in Usernames, p \in Passwords : login(u, p)
    \/ \E u \in Usernames, p \in Passwords : api_login(u, p)
    \/ \E u \in Usernames, p \in Passwords : register(u, p)
    \/ \E u \in Usernames, p \in Passwords : api_register(u, p)

SpecAuth == Init /\ [][NextAuth]_vars

\* ------------------------------------------- register, one database call a step
\* register / api_register up to and including the select: the handle check and
\* `existing = ...select("id").eq("username", username).execute()`
register_select(p, variant, username, password) ==
    /\ pc = "idle"
    /\ reg[p].pc = "idle"
    /\ IF ~(IF variant = "rest" THEN supabase_client ELSE services.supabase)
       THEN reg' = [reg EXCEPT ![p] =
                      [pc |-> "done", variant |-> variant, username |-> username,
                       password |-> password, existing |-> <<>>,
                       resp |-> IF variant = "rest"
                                THEN HTTPException(503, "db not ready")
                                ELSE [success |-> FALSE, message |-> "db not configured"]]]
       ELSE reg' = [reg EXCEPT ![p] =
                      [pc |-> "selected", variant |-> variant, username |-> username,
                       password |-> password,
                       existing |-> select_by_username(username), resp |-> NoResp]]
    /\ UNCHANGED <<pc, handles, users, wardrobe, next_item_id, req, resp, calls, upVars>>

\* the rest of the handler: `if existing.data` fails the call, otherwise the
\* insert is made and success is returned
register_insert(p) ==
    /\ reg[p].pc = "selected"
    /\ IF reg[p].existing # <<>>
       THEN /\ users' = users
            /\ reg' = [reg EXCEPT ![p].pc = "done",
                                  ![p].resp = IF reg[p].variant = "rest"
                                              THEN HTTPException(400, "username exists")
                                              ELSE [success |-> FALSE,
                                                    message |-> "username exists"]]
       ELSE /\ Len(users) < MaxUsers
            /\ users' = insert_user(reg[p].username, reg[p].password)
            /\ reg' = [reg EXCEPT ![p].pc = "done",
                                  ![p].resp = IF reg[p].variant = "rest"
                                              THEN [code |-> 200, success |-> TRUE,
                                                    message |-> "registered"]
                                              ELSE [success |-> TRUE,
                                                    message |-> "registered"]]
    /\ UNCHANGED <<pc, handles, wardrobe, next_item_id, req, resp, calls, upVars>>

\* the response was delivered: the process is free for its next request
register_done(p) ==
    /\ reg[p].pc = "done"
    /\ reg' = [reg EXCEPT ![p] = RegIdle]
    /\ UNCHANGED <<pc, handles, users, wardrobe, next_item_id, req, resp, calls, upVars>>

NextConcurrent ==
    \/ Startup
    \/ \E p \in Procs, v \in {"rest", "streamlit"}, u \in Usernames, w \in Passwords :
          register_select(p, v, u, w)
    \/ \E p \in Procs : register_insert(p)
    \/ \E p \in Procs : register_done(p)

SpecConcurrent == Init /\ [][NextConcurrent]_vars

\* --------------------------------------------------------- wardrobe store
\* wardrobe_service.get_image_hash: a deterministic digest of the raw bytes
get_image_hash(img_bytes) == (img_bytes * 7 + 3) % 16

\* wardrobe_service.get_wardrobe: the rows owned by user_id
get_wardrobe_items(user_id) == {it \in wardrobe : it.user_id = user_id}

\* wardrobe_service.check_duplicate_image: a stored item of the user has the hash
check_duplicate_image(user_id, img_hash) ==
    \E it \in wardrobe : it.user_id = user_id /\ it.image_hash = img_hash

\* the row wardrobe_service.save_item inserts for ClothingItem(user_id, name, ...)
saved_row(user_id, tags, img_bytes) ==
    [id |-> next_item_id, user_id |-> user_id, name |-> tags.name,
     image_hash |-> get_image_hash(img_bytes)]

\* wardrobe_service.delete_item: delete the row (id, user_id); success iff it existed
delete_ok(store, user_id, item_id) ==
    \E it \in store : it.id = item_id /\ it.user_id = user_id

delete_from(store, user_id, item_id) ==
    {it \in store : ~(it.id = item_id /\ it.user_id = user_id)}

\* wardrobe_service.batch_delete_items: attempt each id in order; returns
\* [store, success_count, fail_count]
RECURSIVE batch_delete_items(_, _, _)
batch_delete_items(store, user_id, item_ids) ==
    IF item_ids = <<>>
    THEN [store |-> store, success_count |-> 0, fail_count |-> 0]
    ELSE LET ok == delete_ok(store, user_id, Head(item_ids))
             rest == batch_delete_items(delete_from(store, user_id, Head(item_ids)),
                                        user_id, Tail(item_ids))
         IN [store |-> rest.store,
             success_count |-> rest.success_count + (IF ok THEN 1 ELSE 0),
             fail_count |-> rest.fail_count + (IF ok THEN 0 ELSE 1)]

\* ------------------------------------------------------------- AI service
\* the tags the tagging service produces for one image
tags_of(img_bytes) == [name |-> img_bytes]

\* ai_service.batch_auto_tag: a list of tags for the first n images; n = 0 is
\* the empty / None result
batch_auto_tag(imgs, n) == [i \in 1..n |-> tags_of(imgs[i])]

\* ------------------------------------------------------------ upload_images
\* fault: the limit is off by one
too_many_files_off_by_one(files) == Len(files) > MAX_UPLOAD + 1

\* `if len(files) > 10`
too_many_files(files) == Len(files) > MAX_UPLOAD

\* fault: the empty tagging result is not checked
tagging_failed_never(tags) == FALSE

\* `if not tags_list`
tagging_failed(tags) == tags = <<>>

\* number of iterations of `for img_bytes, tags in zip(img_bytes_list, tags_list)`
ZipLen == Min(Len(img_bytes_list), Len(tags_list))

ResetUpload ==
    /\ img_bytes_list' = <<>>
    /\ tags_list' = <<>>
    /\ idx' = 0
    /\ success_count' = 0
    /\ duplicate_count' = 0
    /\ fail_count' = 0
    /\ saved_items' = <<>>

\* upload_images up to the loop: handle check, size check, read every file,
\* tag the whole batch, check the tagging result, initialise the counters
upload_images(user_id, files) ==
    /\ pc = "idle"
    /\ req' = [op |-> "upload", variant |-> "rest", user_id |-> user_id,
               n_files |-> Len(files)]
    /\ IF ~(ai_service /\ wardrobe_service)
       THEN /\ resp' = HTTPException(503, "ai not ready")
            /\ calls' = NoCalls
            /\ UNCHANGED <<pc, upVars>>
       ELSE IF too_many_files(files)
       THEN /\ resp' = HTTPException(400, "at most 10 images")
            /\ calls' = NoCalls
            /\ UNCHANGED <<pc, upVars>>
       ELSE \E n \in 0..Len(files) :
            LET tags == batch_auto_tag(files, n)
            IN /\ calls' = [NoCalls EXCEPT !.read = Len(files), !.tag = Len(files), !.tag_n = n]
               /\ IF tagging_failed(tags)
                  THEN /\ resp' = HTTPException(500, "ai tagging failed")
                       /\ UNCHANGED <<pc, upVars>>
                  ELSE /\ pc' = "upload"
                       /\ resp' = NoResp
                       /\ img_bytes_list' = files
                       /\ tags_list' = tags
                       /\ idx' = 1
                       /\ success_count' = 0
                       /\ duplicate_count' = 0
                       /\ fail_count' = 0
                       /\ saved_items' = <<>>
    /\ UNCHANGED <<reg, handles, users, wardrobe, next_item_id>>

\* fault: the duplicate branch lacks its `continue`
upload_loop_save_anyway ==
    /\ pc = "upload"
    /\ idx <= ZipLen
    /\ LET img_bytes == img_bytes_list[idx]
           tags == tags_list[idx]
           img_hash == get_image_hash(img_bytes)
           is_duplicate == check_duplicate_image(req.user_id, img_hash)
       IN /\ duplicate_count' = duplicate_count + (IF is_duplicate THEN 1 ELSE 0)
          /\ \E success \in BOOLEAN :
               /\ success => next_item_id <= MaxItemId
               /\ calls' = [calls EXCEPT !.dup = @ + 1, !.save = @ + 1]
               /\ IF success
                  THEN /\ wardrobe' = wardrobe \cup {saved_row(req.user_id, tags, img_bytes)}
                       /\ next_item_id' = next_item_id + 1
                       /\ success_count' = success_count + 1
                       /\ saved_items' = Append(saved_items, tags)
                       /\ UNCHANGED fail_count
                  ELSE /\ fail_count' = fail_count + 1
                       /\ UNCHANGED <<wardrobe, next_item_id, success_count, saved_items>>
    /\ idx' = idx + 1
    /\ UNCHANGED <<reg, pc, handles, users, req, resp, img_bytes_list, tags_list>>

\* fault: a failed save ends the call with an error
upload_loop_abort_on_failure ==
    /\ pc = "upload"
    /\ idx <= ZipLen
    /\ LET img_bytes == img_bytes_list[idx]
           tags == tags_list[idx]
           img_hash == get_image_hash(img_bytes)
       IN IF check_duplicate_image(req.user_id, img_hash)
          THEN /\ calls' = [calls EXCEPT !.dup = @ + 1]
               /\ duplicate_count' = duplicate_count + 1
               /\ idx' = idx + 1
               /\ UNCHANGED <<pc, resp, wardrobe, next_item_id, success_count, fail_count,
                              saved_items, img_bytes_list, tags_list>>
          ELSE \E success \in BOOLEAN :
               /\ success => next_item_id <= MaxItemId
               /\ calls' = [calls EXCEPT !.dup = @ + 1, !.save = @ + 1]
               /\ IF success
                  THEN /\ wardrobe' = wardrobe \cup {saved_row(req.user_id, tags, img_bytes)}
                       /\ next_item_id' = next_item_id + 1
                       /\ success_count' = success_count + 1
                       /\ saved_items' = Append(saved_items, tags)
                       /\ idx' = idx + 1
                       /\ UNCHANGED <<pc, resp, fail_count, duplicate_count,
                                      img_bytes_list, tags_list>>
                  ELSE /\ pc' = "idle"
                       /\ resp' = HTTPException(500, "upload failed")
                       /\ ResetUpload
                       /\ UNCHANGED <<wardrobe, next_item_id>>
    /\ UNCHANGED <<reg, handles, users, req>>

\* one iteration of the loop: duplicate check, then save_item, which succeeds
\* or fails (it can succeed only while the store has an id left to hand out)
upload_loop ==
    /\ pc = "upload"
    /\ idx <= ZipLen
    /\ LET img_bytes == img_bytes_list[idx]
           tags == tags_list[idx]
           img_hash == get_image_hash(img_bytes)
       IN IF check_duplicate_image(req.user_id, img_hash)
          THEN /\ calls' = [calls EXCEPT !.dup = @ + 1]
               /\ duplicate_count' = duplicate_count + 1
               /\ UNCHANGED <<wardrobe, next_item_id, success_count, fail_count, saved_items>>
          ELSE \E success \in BOOLEAN :
               /\ success => next_item_id <= MaxItemId
               /\ calls' = [calls EXCEPT !.dup = @ + 1, !.save = @ + 1]
               /\ IF success
                  THEN /\ wardrobe' = wardrobe \cup {saved_row(req.user_id, tags, img_bytes)}
                       /\ next_item_id' = next_item_id + 1
                       /\ success_count' = success_count + 1
                       /\ saved_items' = Append(saved_items, tags)
                       /\ UNCHANGED <<fail_count, duplicate_count>>
                  ELSE /\ fail_count' = fail_count + 1
                       /\ UNCHANGED <<wardrobe, next_item_id, success_count,
                                      duplicate_count, saved_items>>
    /\ idx' = idx + 1
    /\ UNCHANGED <<reg, pc, handles, users, req, resp, img_bytes_list, tags_list>>

\* the loop is over: return the success response with the counters
upload_return ==
    /\ pc = "upload"
    /\ idx > ZipLen
    /\ pc' = "idle"
    /\ resp' = [code |-> 200, success |-> TRUE, success_count |-> success_count,
                duplicate_count |-> duplicate_count, fail_count |-> fail_count,
                items |-> saved_items]
    /\ ResetUpload
    /\ UNCHANGED <<reg, handles, users, wardrobe, next_item_id, req, calls>>

\* ------------------------------------------------- weather, wardrobe, delete
\* a handler whose try block has `except HTTPException: raise` lets exc through
except_reraise(exc) == exc

\* a handler with only `except Exception as e` turns every exception raised in its
\* try block, an HTTPException too, into a 500
except_broad(exc) == HTTPException(500, "failed")

get_weather(city, weather) ==
    /\ pc = "idle"
    /\ req' = [op |-> "weather", variant |-> "rest", city |-> city]
    /\ IF ~weather_service
       THEN /\ resp' = except_reraise(HTTPException(503, "weather not ready"))
            /\ calls' = NoCalls
       ELSE /\ calls' = [NoCalls EXCEPT !.weather = weather]
            /\ resp' = IF weather # "None"
                       THEN [code |-> 200, success |-> TRUE, weather |-> weather]
                       ELSE except_reraise(HTTPException(404, "no weather"))
    /\ UNCHANGED <<reg, pc, handles, users, wardrobe, next_item_id, upVars>>

get_wardrobe(user_id) ==
    /\ pc = "idle"
    /\ req' = [op |-> "wardrobe", variant |-> "rest", user_id |-> user_id]
    /\ IF ~wardrobe_service
       THEN /\ resp' = except_broad(HTTPException(503, "wardrobe not ready"))
            /\ calls' = NoCalls
       ELSE /\ calls' = [NoCalls EXCEPT !.get_wardrobe = 1]
            /\ resp' = [code |-> 200, success |-> TRUE,
                        items |-> get_wardrobe_items(user_id),
                        total |-> Cardinality(get_wardrobe_items(user_id))]
    /\ UNCHANGED <<reg, pc, handles, users, wardrobe, next_item_id, upVars>>

delete_item(user_id, item_id) ==
    /\ pc = "idle"
    /\ req' = [op |-> "delete", variant |-> "rest", user_id |-> user_id]
    /\ calls' = NoCalls
    /\ IF ~wardrobe_service
       THEN /\ resp' = except_broad(HTTPException(503, "wardrobe not ready"))
            /\ wardrobe' = wardrobe
       ELSE /\ resp' = [code |-> 200, success |-> delete_ok(wardrobe, user_id, item_id)]
            /\ wardrobe' = delete_from(wardrobe, user_id, item_id)
    /\ UNCHANGED <<reg, pc, handles, users, next_item_id, upVars>>

\* fault: the two counts are swapped
batch_delete_response_swapped(result) ==
    [code |-> 200, success |-> result.fail_count = 0,
     success_count |-> result.fail_count, fail_count |-> result.success_count]

\* main.py batch_delete: the response built from batch_delete_items' result
batch_delete_response(result) ==
    [code |-> 200, success |-> result.fail_count = 0,
     success_count |-> result.success_count, fail_count |-> result.fail_count]

batch_delete(user_id, item_ids) ==
    /\ pc = "idle"
    /\ req' = [op |-> "batch_delete", variant |-> "rest", user_id |-> user_id,
               item_ids |-> item_ids]
    /\ calls' = NoCalls
    /\ IF ~wardrobe_service
       THEN /\ resp' = except_broad(HTTPException(503, "wardrobe not ready"))
            /\ wardrobe' = wardrobe
       ELSE LET result == batch_delete_items(wardrobe, user_id, item_ids)
            IN /\ resp' = batch_delete_response(result)
               /\ wardrobe' = result.store
    /\ UNCHANGED <<reg, pc, handles, users, next_item_id, upVars>>

\* app.py api_batch_delete: item_ids arrive as JSON text, here a sequence of
\* number tokens; json.loads turns each token into its number and raises on
\* anything else
IsNumberToken(t) == \E n \in DeleteIds : ToString(n) = t

json_loads(text) ==
    IF \A i \in DOMAIN text : IsNumberToken(text[i])
    THEN [ok |-> TRUE,
          value |-> [i \in DOMAIN text |-> CHOOSE n \in DeleteIds : ToString(n) = text[i]]]
    ELSE [ok |-> FALSE, value |-> <<>>]

api_batch_delete_response(result) ==
    [success |-> result.fail_count = 0,
     success_count |-> result.success_count, fail_count |-> result.fail_count]

api_batch_delete(user_id, item_ids_json) ==
    /\ pc = "idle"
    /\ req' = [op |-> "batch_delete", variant |-> "streamlit", user_id |-> user_id,
               item_ids_json |-> item_ids_json]
    /\ calls' = NoCalls
    /\ IF ~services.wardrobe
       THEN /\ resp' = [success |-> FALSE, message |-> "wardrobe not configured"]
            /\ wardrobe' = wardrobe
       ELSE LET parsed == json_loads(item_ids_json)
                item_ids == parsed.value
            IN IF ~parsed.ok
               THEN /\ resp' = [success |-> FALSE, message |-> "JSONDecodeError"]
                    /\ wardrobe' = wardrobe
               ELSE LET result == batch_delete_items(wardrobe, user_id, item_ids)
                    IN /\ resp' = api_batch_delete_response(result)
                       /\ wardrobe' = result.store
    /\ UNCHANGED <<reg, pc, handles, users, next_item_id, upVars>>

\* ------------------------------------------------------- get_recommendation
\* fault: the empty-wardrobe check is dropped
wardrobe_is_empty_never(items) == FALSE

\* `if not wardrobe`
wardrobe_is_empty(items) == items = {}

\* `if not weather`
weather_unavailable(weather) == weather = "None"

\* `style = request.style if request.style else "不限定風格"`
style_or_default(style) == IF style # "" THEN style ELSE "unrestricted"

get_recommendation(user_id, city, style, weather, recommendation) ==
    /\ pc = "idle"
    /\ req' = [op |-> "recommendation", variant |-> "rest", user_id |-> user_id,
               city |-> city, style |-> style]
    /\ IF ~(ai_service /\ weather_service /\ wardrobe_service)
       THEN /\ resp' = except_reraise(HTTPException(503, "recommendation not ready"))
            /\ calls' = NoCalls
       ELSE IF wardrobe_is_empty(get_wardrobe_items(user_id))
       THEN /\ resp' = except_reraise(HTTPException(404, "wardrobe empty"))
            /\ calls' = [NoCalls EXCEPT !.get_wardrobe = 1]
       ELSE IF weather_unavailable(weather)
       THEN /\ resp' = except_reraise(HTTPException(404, "no weather"))
            /\ calls' = [NoCalls EXCEPT !.get_wardrobe = 1, !.weather = weather]
       ELSE IF recommendation = ""
       THEN /\ resp' = except_reraise(HTTPException(500, "ai recommendation failed"))
            /\ calls' = [NoCalls EXCEPT !.get_wardrobe = 1, !.weather = weather,
                                        !.gen = 1, !.gen_style = style_or_default(style)]
       ELSE \E recommended_items \in SUBSET get_wardrobe_items(user_id) :
            /\ resp' = [code |-> 200, success |-> TRUE, recommendation |-> recommendation,
                        items |-> recommended_items, weather |-> weather]
            /\ calls' = [NoCalls EXCEPT !.get_wardrobe = 1, !.weather = weather,
                                        !.gen = 1, !.gen_style = style_or_default(style),
                                        !.parse = 1]
    /\ UNCHANGED <<reg, pc, handles, users, wardrobe, next_item_id, upVars>>

JsonTexts ==
    UNION {[1..n -> {ToString(i) : i \in DeleteIds}] : n \in 0..MaxIds} \cup {<<"x">>}

\* the upload and recommendation pipelines
Next ==
    \/ Startup
    \/ \E u \in UserIds, f \in FileBatches : upload_images(u, f)
    \/ upload_loop
    \/ upload_return
    \/ \E c \in Cities, w \in WeatherResults : get_weather(c, w)
    \/ \E u \in UserIds : get_wardrobe(u)
    \/ \E u \in UserIds, c \in Cities, s \in Styles, w \in WeatherResults,
          r \in Recommendations : get_recommendation(u, c, s, w, r)

Spec == Init /\ [][Next]_vars

\* deletions, on wardrobes filled by one-file uploads
NextDelete ==
    \/ Startup
    \/ \E u \in UserIds, f \in SingleFileBatches : upload_images(u, f)
    \/ upload_loop
    \/ upload_return
    \/ \E u \in UserIds, i \in ItemIds : delete_item(u, i)
    \/ \E u \in UserIds, ids \in IdLists : batch_delete(u, ids)
    \/ \E u \in UserIds, t \in JsonTexts : api_batch_delete(u, t)

SpecDelete == Init /\ [][NextDelete]_vars

\* ========================================================== properties
\* the database handle the request's variant needs is present
DbReady(r) == IF r.variant = "rest" THEN supabase_client ELSE services.supabase

\* the "username exists" failure of each variant
IsUsernameExists(r, rs) ==
    IF r.variant = "rest"
    THEN rs.code = 400 /\ rs.detail = "username exists"
    ELSE rs.success = FALSE /\ rs.message = "username exists"

\* C8: a register call (either variant) for a username that already has a row
\* fails with "username exists" (400 in REST, success=false in Streamlit),
\* inserts no row and leaves every existing row, the first user's included,
\* exactly as it was, whatever password the second call carries.
C8_SecondRegisterRejected ==
    [][(/\ pc = "idle"
        /\ req'.op = "register"
        /\ DbReady(req')
        /\ \E i \in DOMAIN users : users[i].username = req'.username)
       => (/\ IsUsernameExists(req', resp')
           /\ users' = users)]_vars

C8_Witness ==
    /\ req.op = "register"
    /\ req.variant = "rest"
    /\ resp.code = 400
    /\ \E i \in DOMAIN users :
          users[i].username = req.username /\ users[i].password # req.password

\* the rows that hold exactly the pair of request r
MatchingRows(r) ==
    {i \in DOMAIN users : users[i].username = r.username /\ users[i].password = r.password}

\* the login failure of each variant: 401 (REST) or success=false (Streamlit),
\* and no user id in the response
IsLoginFailure(r, rs) ==
    /\ rs.success = FALSE
    /\ "user_id" \notin DOMAIN rs
    /\ r.variant = "rest" => rs.code = 401

\* C9: a successful register(u, p) stores one new row holding exactly (u, p);
\* a login with a pair that was registered succeeds and returns (as a string)
\* the id of the row registered for it; a login with a registered username and
\* another password, or with an unknown username, fails (401 in REST,
\* success=false in Streamlit) and returns no user id.
C9_RegisterThenLogin ==
    [][/\ (pc = "idle" /\ req'.op = "register" /\ resp'.success)
          => (/\ Len(users') = Len(users) + 1
              /\ SubSeq(users', 1, Len(users)) = users
              /\ users'[Len(users')].username = req'.username
              /\ users'[Len(users')].password = req'.password
              /\ \A i \in DOMAIN users : users[i].id # users'[Len(users')].id)
       /\ (pc = "idle" /\ req'.op = "login" /\ DbReady(req'))
          => IF MatchingRows(req') # {}
             THEN /\ resp'.success
                  /\ \E i \in MatchingRows(req') : resp'.user_id = ToString(users[i].id)
                  /\ Cardinality(MatchingRows(req')) = 1
             ELSE IsLoginFailure(req', resp')]_vars

C9_Witness ==
    /\ req.op = "login"
    /\ resp.success
    /\ Len(users) = 2
    /\ resp.user_id = "2"

\* ---------------------------------------------------------------- upload
\* user_id already stores an item whose hash is h
Stored(user_id, h) == \E it \in wardrobe : it.user_id = user_id /\ it.image_hash = h

\* the handles upload_images needs are present
UploadReady == ai_service /\ wardrobe_service

\* C1: when the upload loop reaches an image whose content hash is already
\* stored for the user, the image is counted in duplicate_count only,
\* save_item is not called and the wardrobe keeps the same items; and no step
\* of any handler ever stores an item whose hash the user already had.
C1_DuplicateSkipped ==
    [][/\ (/\ pc = "upload"
           /\ idx <= Min(Len(img_bytes_list), Len(tags_list))
           /\ Stored(req.user_id, get_image_hash(img_bytes_list[idx])))
          => (/\ duplicate_count' = duplicate_count + 1
              /\ success_count' = success_count
              /\ fail_count' = fail_count
              /\ calls'.save = calls.save
              /\ wardrobe' = wardrobe)
       /\ \A it \in wardrobe' \ wardrobe : ~Stored(it.user_id, it.image_hash)]_vars

C1_Witness ==
    /\ req.op = "upload"
    /\ resp.code = 200
    /\ resp.duplicate_count = 2
    /\ resp.success_count = 1
    /\ Cardinality({it \in wardrobe : it.user_id = req.user_id}) = 2

\* C2: the images submitted to the tagging call are novel: right after the
\* tagging call (before the loop has stored anything) no submitted image has a
\* hash that is already stored for the user.
C2_OnlyNovelImagesTagged ==
    (pc = "upload" /\ idx = 1 /\ calls.tag = Len(img_bytes_list))
    => \A i \in DOMAIN img_bytes_list :
         ~Stored(req.user_id, get_image_hash(img_bytes_list[i]))

C4_NoTagsAbortsCall ==
    [][(pc = "idle" /\ req'.op = "upload" /\ calls'.tag_n = 0)
       => (/\ pc' = "idle"
           /\ resp'.code = 500
           /\ ~resp'.success
           /\ "success_count" \notin DOMAIN resp'
           /\ calls'.dup = 0
           /\ calls'.save = 0
           /\ wardrobe' = wardrobe
           /\ next_item_id' = next_item_id)]_vars

C4_Witness ==
    /\ req.op = "upload"
    /\ calls.tag_n = 0
    /\ calls.tag = 2
    /\ resp.code = 500
    /\ wardrobe # {}

\* C5: an upload call with more than MAX_UPLOAD files is rejected at once,
\* with 400 when the service handles are present: no file is read, the tagging
\* service is not called, no duplicate check or save is made, and the wardrobe
\* is unchanged.
C5_OversizeBatchRejected ==
    [][(pc = "idle" /\ req'.op = "upload" /\ req'.n_files > 10)
         => (/\ pc' = "idle"
             /\ ~resp'.success
             /\ UploadReady => resp'.code = 400
             /\ calls'.read = 0
             /\ calls'.tag = 0
             /\ calls'.tag_n = -1
             /\ calls'.dup = 0
             /\ calls'.save = 0
             /\ wardrobe' = wardrobe
             /\ next_item_id' = next_item_id)]_vars

C5_Witness ==
    /\ req.op = "upload"
    /\ resp.code = 400
    /\ calls.read = 0
    /\ wardrobe # {}

\* ---------------------------------------------------------- recommendation
RecommendationReady == ai_service /\ weather_service /\ wardrobe_service

\* C6: a recommendation request of a user whose wardrobe is empty, or for
\* which the weather is unavailable, ends with 404 and makes no generation and
\* no parse call; a generation call is made only with a non-empty wardrobe
\* loaded and the weather obtained, and a parse call only after a generation.
C6_RecommendationNotFound ==
    (req.op = "recommendation" /\ RecommendationReady)
    => LET mine == {it \in wardrobe : it.user_id = req.user_id}
       IN /\ (mine = {} \/ calls.weather = "None")
             => (resp.code = 404 /\ calls.gen = 0 /\ calls.parse = 0)
          /\ calls.gen > 0
             => (/\ mine # {}
                 /\ calls.get_wardrobe = 1
                 /\ calls.weather \notin {"None", "not called"})
          /\ calls.parse > 0 => calls.gen > 0

C6_Witness ==
    /\ req.op = "recommendation"
    /\ RecommendationReady
    /\ {it \in wardrobe : it.user_id = req.user_id} = {}
    /\ wardrobe # {}
    /\ resp.code = 404
    /\ calls.gen = 0

\* ---------------------------------------------------------- missing handles
\* the handle(s) the REST endpoint of request r needs are all present
RestHandlesPresent(r) ==
    CASE r.op \in {"login", "register"} -> supabase_client
      [] r.op = "weather" -> weather_service
      [] r.op = "upload" -> ai_service /\ wardrobe_service
      [] r.op \in {"wardrobe", "delete", "batch_delete"} -> wardrobe_service
      [] r.op = "recommendation" -> ai_service /\ weather_service /\ wardrobe_service
      [] OTHER -> TRUE

\* C7: a REST request whose endpoint lacks a required handle is answered 503.
C7_MissingHandleIs503 ==
    (pc = "idle" /\ req.variant = "rest" /\ ~RestHandlesPresent(req))
    => resp.code = 503

\* ------------------------------------------------------------ batch delete
Range(seq) == {seq[i] : i \in DOMAIN seq}

\* what a batch-delete of item_ids by user_id must do to the wardrobe and report
BatchDeleteOutcome(user_id, item_ids) ==
    LET owned == {it \in wardrobe : it.user_id = user_id /\ it.id \in Range(item_ids)}
    IN /\ wardrobe' = wardrobe \ owned
       /\ resp'.success_count = Cardinality(owned)
       /\ resp'.fail_count = Len(item_ids) - Cardinality(owned)
       /\ resp'.success_count + resp'.fail_count = Len(item_ids)
       /\ resp'.success = (resp'.fail_count = 0)

C11_UsernamesStayUnique ==
    /\ \A i, j \in DOMAIN users : users[i].username = users[j].username => i = j
    /\ \A p, q \in Procs :
         (/\ p # q
          /\ reg[p].pc = "done"
          /\ reg[q].pc = "done"
          /\ reg[p].username = reg[q].username)
         => ~(reg[p].resp.success /\ reg[q].resp.success)

\* ---------------------------------------------------------- upload counters
\* C12: an upload call that returns the success response has classified each
\* uploaded image exactly once: success_count + duplicate_count + fail_count
\* is the number of images of the request, and the returned items list has
\* success_count entries.
C12_EveryImageCounted ==
    (pc = "idle" /\ req.op = "upload" /\ resp.code = 200)
    => (/\ resp.success_count + resp.duplicate_count + resp.fail_count = req.n_files
        /\ Len(resp.items) = resp.success_count)

====
